---- MODULE Spec2Model ----
(***************************************************************************)
(* Model of src/vs/workbench/api/browser/positron/mainThreadLanguageRuntime *)
(* One runtime session (ExtHostLanguageRuntimeAdapter): its Lamport-clock   *)
(* reorder buffer, its RuntimeState, its comm map, and the comm instances   *)
(* (ExtHostRuntimeClientInstance) with their pending RPCs; and the         *)
(* registry of sessions by handle (MainThreadLanguageRuntime).              *)
(***************************************************************************)
EXTENDS Integers, Sequences, FiniteSets, TLC

\* ---------------------------------------------------------------- bounds
\* the session as a whole (Spec)
MaxClock == 2        \* event clocks are drawn from 1..MaxClock
MaxEvents == 2       \* events submitted to addToEventQueue in one behaviour
MaxClients == 1      \* createClient calls in one behaviour
MaxRpcs == 1         \* performRpc calls in one behaviour
MaxDisposals == 1    \* dispose() calls by consumers in one behaviour
MaxLifecycle == 1    \* interrupt/restart/shutdown calls in one behaviour
MaxStarts == 1       \* start() calls in one behaviour
MaxLists == 1        \* listClients calls that resolve in one behaviour
\* the reorder buffer alone (SpecQueue)
MaxQueueClock == 4   \* event clocks are drawn from 1..MaxQueueClock
MaxQueueEvents == 3  \* events submitted to addToEventQueue in one behaviour
\* the reorder buffer under a fair recovery timer (SpecBufferFair)
MaxBufferClock == 3  \* event clocks are drawn from 1..MaxBufferClock
MaxBufferEvents == 3 \* events submitted to addToEventQueue in one behaviour
\* runtime-opened comms with events arriving in clock order (SpecRpc)
MaxRpcEvents == 3   \* events submitted to addToEventQueue in one behaviour
\* created and adopted comms with events arriving in clock order (SpecComm)
MaxCommOps == 5      \* events, createClient, listClients and dispose calls in all
\* lifecycle calls and start() with state changes in clock order (SpecLifecycle)
MaxLifecycleEvents == 2 \* state-change events submitted in one behaviour
\* comms disposed more than once (SpecDispose)
MaxDisposeCalls == 2  \* dispose() calls by consumers in one behaviour
MaxDisposeEvents == 2 \* events submitted to addToEventQueue in one behaviour
\* the session registry (SpecRegistry)
MaxRegistryCalls == 4 \* calls the extension host makes in one behaviour
MaxRegistryClock == 2 \* event clocks are drawn from 1..MaxRegistryClock

\* ------------------------------------------------------------ vocabulary
\* RuntimeState (languageRuntimeService), as named by the spec's state machine
RuntimeStates ==
    {"uninitialized", "starting", "ready", "busy", "interrupting",
     "restarting", "exiting", "exited"}

\* RuntimeClientState
ClientStates == {"uninitialized", "opening", "connected", "closing", "closed"}

\* Object.values(RuntimeClientType): the recognized client types
RuntimeClientType == {"positron.environment", "positron.plot"}

\* a target name the front end does not know
UnknownTypes == {"jupyter.widget"}

\* comm ids are <<client type, language id, counter, random part>>
RemoteIds == {<<"remote", "", 1, 0>>}
NoId == <<"", "", 0, 0>>

VARIABLES
    currentState,      \* _currentState
    clients,           \* _clients: comm id -> instance (index into instances)
    eventClock,        \* _eventClock
    eventQueue,        \* _eventQueue
    eventQueueTimer,   \* _eventQueueTimer refers to an armed timeout
    timeouts,          \* the armed setTimeout callbacks of addToEventQueue
    clientCounter,     \* static clientCounter
    instances,         \* every ExtHostRuntimeClientInstance constructed so far
    rpcs,              \* every performRpc call so far: its deferred promise and timer
    createRequests,    \* $createClient promises: instance -> "pending",
                       \* "resolved" or "rejected"
    removeClientCalls, \* comm ids passed to $removeClient, in call order
    submitted,         \* history: the events given to addToEventQueue, in order
    dispatched,        \* history: uids handed to the subscribers, in order
    dropped,           \* history: uids of late state changes that were ignored
    exits,             \* history: times the state listener ran with Exited
    timerFirings,      \* history: times the recovery timeout callback ran
    disposals,         \* history: consumer dispose() calls
    lifecycleCalls,    \* history: interrupt/restart/shutdown calls
    listed,            \* per listClients call: the response it processed and
                       \* the array of instances it resolved with
    created,           \* history: what _onDidCreateClientInstanceEmitter fired:
                       \* the instance and the state it was in at that moment
    lifecycleRequests, \* $interrupt/$restart/$shutdownLanguageRuntime promises
    starts,            \* per start() call: $startLanguageRuntime's promise
                       \* ("pending", "resolved", "rejected") and the returned one
    startupEvents,     \* history: what _startupEmitter fired, per start() call
    startupFailures,   \* history: what _startupFailureEmitter fired, per call
    runtimes,          \* _runtimes of MainThreadLanguageRuntime: handle -> adapter
    adapters,          \* every adapter $registerLanguageRuntime constructed
    calls,             \* history: the calls the extension host made, in order
    thrown,            \* history: the errors those calls threw back, by call
    unregistered       \* history: the adapters $unregisterLanguageRuntime removed

vars ==
    <<currentState, clients, eventClock, eventQueue, eventQueueTimer, timeouts,
      clientCounter, instances, rpcs, createRequests, removeClientCalls,
      submitted, dispatched, dropped, exits, timerFirings, disposals,
      lifecycleCalls, listed, created, lifecycleRequests, starts, startupEvents,
      startupFailures, runtimes, adapters, calls, thrown, unregistered>>

\* MainThreadLanguageRuntime and the adapters it registered
registryVars == <<runtimes, adapters, calls, thrown, unregistered>>

\* the adapter studied on its own, with its comms and requests
sessionVars ==
    <<currentState, clients, eventClock, eventQueue, eventQueueTimer, timeouts,
      clientCounter, instances, rpcs, createRequests, removeClientCalls,
      submitted, dispatched, dropped, exits, timerFirings, disposals,
      lifecycleCalls, listed, created, lifecycleRequests, starts, startupEvents,
      startupFailures>>

\* what start() and its two callbacks touch
startVars == <<starts, startupEvents, startupFailures>>

\* The adapter and everything it owns, as one value the handlers transform.
Session ==
    [currentState |-> currentState, clients |-> clients,
     eventClock |-> eventClock, eventQueue |-> eventQueue,
     eventQueueTimer |-> eventQueueTimer, timeouts |-> timeouts,
     clientCounter |-> clientCounter,
     instances |-> instances, rpcs |-> rpcs,
     createRequests |-> createRequests,
     removeClientCalls |-> removeClientCalls,
     dispatched |-> dispatched, dropped |-> dropped, exits |-> exits,
     listed |-> listed, created |-> created]

Install(t) ==
    \E r \in {t} :
        /\ currentState' = r.currentState
        /\ clients' = r.clients
        /\ eventClock' = r.eventClock
        /\ eventQueue' = r.eventQueue
        /\ eventQueueTimer' = r.eventQueueTimer
        /\ timeouts' = r.timeouts
        /\ clientCounter' = r.clientCounter
        /\ instances' = r.instances
        /\ rpcs' = r.rpcs
        /\ createRequests' = r.createRequests
        /\ removeClientCalls' = r.removeClientCalls
        /\ dispatched' = r.dispatched
        /\ dropped' = r.dropped
        /\ exits' = r.exits
        /\ listed' = r.listed
        /\ created' = r.created

\* ------------------------------------------------- DeferredPromise (async)
\* A deferred promise: the native promise p settles on the first call of
\* complete or error and keeps that outcome; every call sets its own flag.
Pending == [kind |-> "pending", payload |-> ""]

NewDeferred == [p |-> Pending, resolved |-> FALSE, rejected |-> FALSE, calls |-> 0]

complete(d, value) ==
    [d EXCEPT !.p = IF @.kind = "pending"
                    THEN [kind |-> "resolved", payload |-> value] ELSE @,
              !.resolved = TRUE,
              !.calls = @ + 1]

error(d, err) ==
    [d EXCEPT !.p = IF @.kind = "pending" THEN err ELSE @,
              !.rejected = TRUE,
              !.calls = @ + 1]

isSettled(d) == d.rejected \/ d.resolved

\* new Error(`RPC timed out after 5 seconds: ${JSON.stringify(request)}`)
TimeoutError(request) == [kind |-> "timeout", payload |-> request]

\* 'The language runtime exited before the RPC completed.'
ExitedError == [kind |-> "exited", payload |-> ""]

\* ------------------------------------------ ExtHostRuntimeClientInstance
\* new ExtHostRuntimeClientInstance(id, type, handle, proxy)
NewInstance(id, type) ==
    [id |-> id, type |-> type, state |-> "uninitialized", disposed |-> FALSE,
     pendingRpcs |-> {}, observed |-> <<>>, received |-> 0, disposeCalls |-> 0]

\* _stateEmitter.fire(state): the emitter is registered with the instance
\* (_register), so Disposable.dispose() disposes it, and a disposed emitter
\* has no listeners left: neither the listener that records _state nor the
\* consumers' listeners see the event.
fireClientState(s, i, state) ==
    IF s.instances[i].disposed
    THEN s
    ELSE [s EXCEPT !.instances[i].state = state,
                   !.instances[i].observed = Append(@, state)]

\* _dataEmitter.fire(data): registered and disposed like the state emitter.
fireData(s, i) ==
    IF s.instances[i].disposed
    THEN s
    ELSE [s EXCEPT !.instances[i].received = @ + 1]

setClientState(s, i, state) == fireClientState(s, i, state)

\* performRpc(request): a fresh message id keys the deferred promise in
\* _pendingRpcs, the request is sent and the 5 second timeout is armed.
performRpc(s, i, request) ==
    LET messageId == Len(s.rpcs) + 1
    IN [s EXCEPT !.rpcs = Append(@, [client |-> i, request |-> request,
                                      timer |-> TRUE, promise |-> NewDeferred]),
                 !.instances[i].pendingRpcs = @ \cup {messageId}]

\* the timeout callback rejecting without removing the pending entry
rpcTimeout_NoDelete(s, messageId) ==
    LET r == s.rpcs[messageId]
    IN IF isSettled(r.promise)
       THEN [s EXCEPT !.rpcs[messageId].timer = FALSE]
       ELSE [s EXCEPT !.rpcs[messageId].timer = FALSE,
                      !.rpcs[messageId].promise = error(@, TimeoutError(r.request))]

\* the setTimeout callback of performRpc
rpcTimeout(s, messageId) ==
    LET r == s.rpcs[messageId]
    IN IF isSettled(r.promise)
       THEN [s EXCEPT !.rpcs[messageId].timer = FALSE]
       ELSE [s EXCEPT !.rpcs[messageId].timer = FALSE,
                      !.rpcs[messageId].promise = error(@, TimeoutError(r.request)),
                      !.instances[r.client].pendingRpcs = @ \ {messageId}]

\* emitData that takes any message naming an RPC for that RPC's response
emitData_IgnoresPending(s, i, message) ==
    IF message.parent_id # 0 /\ message.parent_id \in DOMAIN s.rpcs
    THEN [s EXCEPT !.rpcs[message.parent_id].promise = complete(@, message.data),
                   !.instances[i].pendingRpcs = @ \ {message.parent_id}]
    ELSE fireData(s, i)

\* emitData(message)
emitData(s, i, message) ==
    IF message.parent_id # 0 /\ message.parent_id \in s.instances[i].pendingRpcs
    THEN [s EXCEPT !.rpcs[message.parent_id].promise = complete(@, message.data),
                   !.instances[i].pendingRpcs = @ \ {message.parent_id}]
    ELSE fireData(s, i)

\* for (const promise of this._pendingRpcs.values()) promise.error(...)
RECURSIVE cancelPendingRpcs(_, _)
cancelPendingRpcs(rs, ids) ==
    IF ids = {}
    THEN rs
    ELSE LET m == CHOOSE x \in ids : TRUE
         IN cancelPendingRpcs([rs EXCEPT ![m].promise = error(@, ExitedError)],
                              ids \ {m})

\* dispose() without super.dispose(): the emitters stay usable
dispose_KeepsEmitters(s, i) ==
    LET s1 == [s EXCEPT !.instances[i].disposeCalls = @ + 1]
        s2 == [s1 EXCEPT !.rpcs = cancelPendingRpcs(@, s1.instances[i].pendingRpcs)]
        s3 == IF s2.instances[i].state = "connected"
              THEN [fireClientState(s2, i, "closing") EXCEPT
                        !.removeClientCalls = Append(@, s2.instances[i].id)]
              ELSE s2
    IN IF s2.instances[i].state # "closed"
       THEN fireClientState(s3, i, "closed")
       ELSE s2

\* dispose()
dispose(s, i) ==
    LET s1 == [s EXCEPT !.instances[i].disposed = TRUE,
                        !.instances[i].disposeCalls = @ + 1]
        s2 == [s1 EXCEPT !.rpcs = cancelPendingRpcs(@, s1.instances[i].pendingRpcs)]
        s3 == IF s2.instances[i].state = "connected"
              THEN [fireClientState(s2, i, "closing") EXCEPT
                        !.removeClientCalls = Append(@, s2.instances[i].id)]
              ELSE s2
    IN IF s2.instances[i].state # "closed"
       THEN fireClientState(s3, i, "closed")
       ELSE s2

\* ------------------------------------------ ExtHostLanguageRuntimeAdapter
Range(f) == {f[k] : k \in DOMAIN f}

\* Map.set / Map.delete on _clients
MapSet(m, k, v) == [x \in DOMAIN m \cup {k} |-> IF x = k THEN v ELSE m[x]]

MapDelete(m, k) == [x \in DOMAIN m \ {k} |-> m[x]]

EmptyMap == [x \in {} |-> 0]

\* the loop body without its check of the client's state
closeIfConnected_Unconditional(s, i) ==
    dispose(setClientState(setClientState(s, i, "closing"), i, "closed"), i)

\* the body of the for loop of the state listener, for one client
closeIfConnected(s, i) ==
    IF s.instances[i].state = "connected"
    THEN dispose(setClientState(setClientState(s, i, "closing"), i, "closed"), i)
    ELSE s

\* for (const client of this._clients.values()): instances enter the map when
\* they are constructed, so index order is the map's insertion order
RECURSIVE forEachClient(_, _, _)
forEachClient(s, held, i) ==
    IF i > Len(s.instances)
    THEN s
    ELSE forEachClient(IF i \in held THEN closeIfConnected(s, i) ELSE s, held, i + 1)

\* _stateEmitter.fire(state) of the adapter: the listener the constructor
\* registers tracks the state and cleans the comms up on Exited
fireRuntimeState(s, state) ==
    LET s1 == [s EXCEPT !.currentState = state]
    IN IF state = "exited"
       THEN [forEachClient(s1, Range(s1.clients), 1) EXCEPT
                 !.clients = EmptyMap,
                 !.exits = @ + 1]
       ELSE s1

\* emitDidReceiveClientMessage that adopts a comm it does not know
emitDidReceiveClientMessage_AdoptsUnknown(s, message) ==
    IF message.comm_id \in DOMAIN s.clients
    THEN emitData(s, s.clients[message.comm_id], message)
    ELSE LET i == Len(s.instances) + 1
             s1 == [s EXCEPT
                       !.instances = Append(@, NewInstance(message.comm_id,
                                                           "positron.plot")),
                       !.clients = MapSet(@, message.comm_id, i)]
         IN setClientState(s1, i, "connected")

\* emitDidReceiveClientMessage(message)
emitDidReceiveClientMessage(s, message) ==
    IF message.comm_id \in DOMAIN s.clients
    THEN emitData(s, s.clients[message.comm_id], message)
    ELSE s

\* openClientInstance without its check of the target name
openClientInstance_NoTypeCheck(s, message) ==
    LET i == Len(s.instances) + 1
        s1 == [s EXCEPT
                  !.instances = Append(@, NewInstance(message.comm_id,
                                                      message.target_name)),
                  !.clients = MapSet(@, message.comm_id, i)]
        s2 == setClientState(s1, i, "connected")
    IN [s2 EXCEPT !.created = Append(@, [client |-> i,
                                         state |-> s2.instances[i].state])]

\* openClientInstance that notifies before it marks the instance connected
openClientInstance_NotifiesFirst(s, message) ==
    IF message.target_name \notin RuntimeClientType
    THEN [s EXCEPT !.removeClientCalls = Append(@, message.comm_id)]
    ELSE LET i == Len(s.instances) + 1
             s1 == [s EXCEPT
                       !.instances = Append(@, NewInstance(message.comm_id,
                                                           message.target_name)),
                       !.clients = MapSet(@, message.comm_id, i)]
             s2 == [s1 EXCEPT !.created = Append(@, [client |-> i,
                                                     state |-> s1.instances[i].state])]
         IN setClientState(s2, i, "connected")

\* openClientInstance(message)
openClientInstance(s, message) ==
    IF message.target_name \notin RuntimeClientType
    THEN [s EXCEPT !.removeClientCalls = Append(@, message.comm_id)]
    ELSE LET i == Len(s.instances) + 1
             s1 == [s EXCEPT
                       !.instances = Append(@, NewInstance(message.comm_id,
                                                           message.target_name)),
                       !.clients = MapSet(@, message.comm_id, i)]
             s2 == setClientState(s1, i, "connected")
         IN [s2 EXCEPT !.created = Append(@, [client |-> i,
                                              state |-> s2.instances[i].state])]

\* emitClientState(id, state)
emitClientState(s, id, state) ==
    IF id \in DOMAIN s.clients
    THEN setClientState(s, s.clients[id], state)
    ELSE s

\* processMessage(message): the switch on message.type
processMessage(s, message) ==
    CASE message.type = "comm_open" -> openClientInstance(s, message)
      [] message.type = "comm_data" -> emitDidReceiveClientMessage(s, message)
      [] message.type = "comm_closed" -> emitClientState(s, message.comm_id, "closed")
      [] OTHER -> s

\* handleQueuedEvent(event)
handleQueuedEvent(s, event) ==
    LET s1 == [s EXCEPT !.dispatched = Append(@, event.uid)]
    IN IF event.kind = "message"
       THEN processMessage(s1, event.message)
       ELSE fireRuntimeState(s1, event.state)

\* Array.prototype.sort((a, b) => a.clock - b.clock), which is stable
RECURSIVE InsertByClock(_, _)
InsertByClock(sorted, e) ==
    IF sorted = <<>>
    THEN <<e>>
    ELSE IF e.clock < Head(sorted).clock
         THEN <<e>> \o sorted
         ELSE <<Head(sorted)>> \o InsertByClock(Tail(sorted), e)

RECURSIVE SortByClock(_)
SortByClock(q) ==
    IF q = <<>>
    THEN <<>>
    ELSE InsertByClock(SortByClock(SubSeq(q, 1, Len(q) - 1)), q[Len(q)])

\* this._eventQueue.forEach(...)
RECURSIVE forEachEvent(_, _)
forEachEvent(s, q) ==
    IF q = <<>>
    THEN s
    ELSE forEachEvent(handleQueuedEvent([s EXCEPT !.eventClock = Head(q).clock],
                                        Head(q)),
                      Tail(q))

\* clearTimeout(this._eventQueueTimer); this._eventQueueTimer = undefined:
\* clearing disarms the timeout the field refers to, if it is still armed
clearEventQueueTimer(s) ==
    [s EXCEPT !.timeouts = IF s.eventQueueTimer THEN @ - 1 ELSE @,
              !.eventQueueTimer = FALSE]

\* if (this._eventQueueTimer) { clearTimeout... }; this._eventQueueTimer =
\* setTimeout(...): the deferral's timer, replacing the one that was armed
armEventQueueTimer(s) ==
    [clearEventQueueTimer(s) EXCEPT !.timeouts = @ + 1,
                                    !.eventQueueTimer = TRUE]

\* processEventQueue that dispatches the queue in arrival order
processEventQueue_Unsorted(s) ==
    LET s1 == clearEventQueueTimer(s)
    IN [forEachEvent(s1, s.eventQueue) EXCEPT !.eventQueue = <<>>]

\* processEventQueue that leaves an armed timer armed
processEventQueue_KeepsTimer(s) ==
    LET q == IF Len(s.eventQueue) > 1 THEN SortByClock(s.eventQueue) ELSE s.eventQueue
        s1 == [s EXCEPT !.eventQueue = q]
    IN [forEachEvent(s1, q) EXCEPT !.eventQueue = <<>>]

\* processEventQueue()
processEventQueue(s) ==
    LET q == IF Len(s.eventQueue) > 1 THEN SortByClock(s.eventQueue) ELSE s.eventQueue
        s1 == [clearEventQueueTimer(s) EXCEPT !.eventQueue = q]
    IN [forEachEvent(s1, q) EXCEPT !.eventQueue = <<>>]

\* addToEventQueue with late state changes applied instead of ignored
addToEventQueue_LateStateApplied(s, event) ==
    IF event.clock < s.eventClock
    THEN handleQueuedEvent(s, event)
    ELSE LET s1 == [s EXCEPT !.eventQueue = Append(@, event)]
         IN IF event.clock = s1.eventClock + 1 \/ s1.eventClock = 0
            THEN processEventQueue(s1)
            ELSE armEventQueueTimer(s1)

\* addToEventQueue without the check for late events
addToEventQueue_NoLateCheck(s, event) ==
    LET s1 == [s EXCEPT !.eventQueue = Append(@, event)]
    IN IF event.clock = s1.eventClock + 1 \/ s1.eventClock = 0
       THEN processEventQueue(s1)
       ELSE armEventQueueTimer(s1)

\* addToEventQueue without the "never received a message" fast path
addToEventQueue_NoFirstEventPath(s, event) ==
    IF event.clock < s.eventClock
    THEN IF event.kind = "message"
         THEN processMessage([s EXCEPT !.dispatched = Append(@, event.uid)],
                             event.message)
         ELSE [s EXCEPT !.dropped = @ \cup {event.uid}]
    ELSE LET s1 == [s EXCEPT !.eventQueue = Append(@, event)]
         IN IF event.clock = s1.eventClock + 1
            THEN processEventQueue(s1)
            ELSE armEventQueueTimer(s1)

\* addToEventQueue that defers without arming the recovery timer
addToEventQueue_NoTimer(s, event) ==
    IF event.clock < s.eventClock
    THEN IF event.kind = "message"
         THEN processMessage([s EXCEPT !.dispatched = Append(@, event.uid)],
                             event.message)
         ELSE [s EXCEPT !.dropped = @ \cup {event.uid}]
    ELSE LET s1 == [s EXCEPT !.eventQueue = Append(@, event)]
         IN IF event.clock = s1.eventClock + 1 \/ s1.eventClock = 0
            THEN processEventQueue(s1)
            ELSE s1

\* addToEventQueue that takes a clock equal to the observed one for late
addToEventQueue_EqualIsLate(s, event) ==
    IF event.clock <= s.eventClock
    THEN IF event.kind = "message"
         THEN processMessage([s EXCEPT !.dispatched = Append(@, event.uid)],
                             event.message)
         ELSE [s EXCEPT !.dropped = @ \cup {event.uid}]
    ELSE LET s1 == [s EXCEPT !.eventQueue = Append(@, event)]
         IN IF event.clock = s1.eventClock + 1 \/ s1.eventClock = 0
            THEN processEventQueue(s1)
            ELSE armEventQueueTimer(s1)

\* addToEventQueue that flushes the queue after handling a late event
addToEventQueue_LateFlushes(s, event) ==
    IF event.clock < s.eventClock
    THEN processEventQueue(
             IF event.kind = "message"
             THEN processMessage([s EXCEPT !.dispatched = Append(@, event.uid)],
                                 event.message)
             ELSE [s EXCEPT !.dropped = @ \cup {event.uid}])
    ELSE LET s1 == [s EXCEPT !.eventQueue = Append(@, event)]
         IN IF event.clock = s1.eventClock + 1 \/ s1.eventClock = 0
            THEN processEventQueue(s1)
            ELSE armEventQueueTimer(s1)

\* addToEventQueue that arms a new timer without clearing the armed one
addToEventQueue_NoClearTimeout(s, event) ==
    IF event.clock < s.eventClock
    THEN IF event.kind = "message"
         THEN processMessage([s EXCEPT !.dispatched = Append(@, event.uid)],
                             event.message)
         ELSE [s EXCEPT !.dropped = @ \cup {event.uid}]
    ELSE LET s1 == [s EXCEPT !.eventQueue = Append(@, event)]
         IN IF event.clock = s1.eventClock + 1 \/ s1.eventClock = 0
            THEN processEventQueue(s1)
            ELSE [s1 EXCEPT !.timeouts = @ + 1, !.eventQueueTimer = TRUE]

\* addToEventQueue(event)
addToEventQueue(s, event) ==
    IF event.clock < s.eventClock
    THEN IF event.kind = "message"
         THEN processMessage([s EXCEPT !.dispatched = Append(@, event.uid)],
                             event.message)
         ELSE [s EXCEPT !.dropped = @ \cup {event.uid}]
    ELSE LET s1 == [s EXCEPT !.eventQueue = Append(@, event)]
         IN IF event.clock = s1.eventClock + 1 \/ s1.eventClock = 0
            THEN processEventQueue(s1)
            ELSE armEventQueueTimer(s1)

\* generateClientId(languageId, clientType)
DotsToHyphens(clientType) ==
    CASE clientType = "positron.environment" -> "positron-environment"
      [] clientType = "positron.plot" -> "positron-plot"
      [] OTHER -> clientType

generateClientId(s, languageId, clientType, randomId) ==
    <<DotsToHyphens(clientType), languageId, s.clientCounter, randomId>>

\* createClient that reports the comm connected at once
createClient_Connected(s, languageId, type, randomId) ==
    LET id == generateClientId(s, languageId, type, randomId)
        i == Len(s.instances) + 1
        s1 == [s EXCEPT !.clientCounter = @ + 1,
                        !.instances = Append(@, NewInstance(id, type)),
                        !.clients = MapSet(@, id, i),
                        !.createRequests = MapSet(@, i, "pending")]
    IN setClientState(s1, i, "connected")

\* createClient(type, params), up to the return of the instance
createClient(s, languageId, type, randomId) ==
    LET id == generateClientId(s, languageId, type, randomId)
        i == Len(s.instances) + 1
        s1 == [s EXCEPT !.clientCounter = @ + 1,
                        !.instances = Append(@, NewInstance(id, type)),
                        !.clients = MapSet(@, id, i),
                        !.createRequests = MapSet(@, i, "pending")]
    IN setClientState(s1, i, "opening")

\* the .then() callback without its check of the current state
createClientResolved_Unconditional(s, i) ==
    setClientState([s EXCEPT !.createRequests[i] = "resolved"], i, "connected")

\* the .then() callback of $createClient
createClientResolved(s, i) ==
    LET s1 == [s EXCEPT !.createRequests[i] = "resolved"]
    IN IF s1.instances[i].state = "opening"
       THEN setClientState(s1, i, "connected")
       ELSE s1

\* the .catch() callback of $createClient
createClientRejected(s, i) ==
    LET s1 == [s EXCEPT !.createRequests[i] = "rejected"]
    IN [setClientState(s1, i, "closed") EXCEPT
           !.clients = MapDelete(@, s1.instances[i].id)]

\* the forEach body without its check of the client type
listClientsEntry_NoTypeCheck(s, entry) ==
    IF entry.id \in DOMAIN s.clients
    THEN [s EXCEPT !.listed[Len(s.listed)].instances =
                       Append(@, s.clients[entry.id])]
    ELSE LET i == Len(s.instances) + 1
             s1 == [s EXCEPT
                       !.instances = Append(@, NewInstance(entry.id, entry.type))]
             s2 == setClientState(s1, i, "connected")
         IN [s2 EXCEPT !.clients = MapSet(@, entry.id, i),
                       !.listed[Len(s.listed)].instances = Append(@, i)]

\* the body of Object.keys(clients).forEach in listClients, for one key
listClientsEntry(s, entry) ==
    IF entry.id \in DOMAIN s.clients
    THEN [s EXCEPT !.listed[Len(s.listed)].instances =
                       Append(@, s.clients[entry.id])]
    ELSE IF entry.type \in RuntimeClientType
         THEN LET i == Len(s.instances) + 1
                  s1 == [s EXCEPT
                            !.instances = Append(@, NewInstance(entry.id, entry.type))]
                  s2 == setClientState(s1, i, "connected")
              IN [s2 EXCEPT !.clients = MapSet(@, entry.id, i),
                            !.listed[Len(s.listed)].instances = Append(@, i)]
         ELSE s

RECURSIVE forEachKey(_, _, _)
forEachKey(s, remote, k) ==
    IF k > Len(remote)
    THEN s
    ELSE forEachKey(listClientsEntry(s, remote[k]), remote, k + 1)

\* listClients(): the callback that runs when $listClients resolves with the
\* runtime's comms, remote being its entries in Object.keys order
listClients(s, remote) ==
    forEachKey([s EXCEPT !.listed =
                             Append(@, [remote |-> remote, instances |-> <<>>])],
               remote, 1)

\* ------------------------------------------------------------- start()
\* The promises start() returned and what the two startup emitters fired.
Startup ==
    [starts |-> starts, startupEvents |-> startupEvents,
     startupFailures |-> startupFailures]

\* a native promise settles once: resolve and reject after that do nothing
settle(p, kind, payload) ==
    IF p.kind = "pending" THEN [kind |-> kind, payload |-> payload] ELSE p

\* start(): new Promise(...) around $startLanguageRuntime
start(u) ==
    [u EXCEPT !.starts = Append(@, [request |-> "pending", promise |-> Pending])]

\* .then((info) => { this._startupEmitter.fire(info); resolve(info); })
startResolved(u, k, info) ==
    [u EXCEPT !.starts[k].request = "resolved",
              !.starts[k].promise = settle(@, "resolved", info),
              !.startupEvents = Append(@, [start |-> k, info |-> info])]

\* .catch((err) => ...) where the else branch fires nothing
startRejected_SilentWithoutMessage(u, k, err) ==
    IF err.message # "" /\ err.details # ""
    THEN [u EXCEPT !.starts[k].request = "rejected",
                   !.starts[k].promise = settle(@, "rejected", err.message),
                   !.startupFailures =
                       Append(@, [start |-> k, message |-> err.message,
                                  details |-> err.details])]
    ELSE IF err.message # ""
         THEN [u EXCEPT !.starts[k].request = "rejected",
                        !.starts[k].promise = settle(@, "rejected", err.message),
                        !.startupFailures =
                            Append(@, [start |-> k, message |-> err.message,
                                       details |-> ""])]
         ELSE [u EXCEPT !.starts[k].request = "rejected",
                        !.starts[k].promise = settle(@, "rejected", err.text)]

\* .catch((err) => ...): the three shapes of err; an absent (falsy) message
\* or details is "", and text is what err.toString() gives
startRejected(u, k, err) ==
    IF err.message # "" /\ err.details # ""
    THEN [u EXCEPT !.starts[k].request = "rejected",
                   !.starts[k].promise = settle(@, "rejected", err.message),
                   !.startupFailures =
                       Append(@, [start |-> k, message |-> err.message,
                                  details |-> err.details])]
    ELSE IF err.message # ""
         THEN [u EXCEPT !.starts[k].request = "rejected",
                        !.starts[k].promise = settle(@, "rejected", err.message),
                        !.startupFailures =
                            Append(@, [start |-> k, message |-> err.message,
                                       details |-> ""])]
         ELSE [u EXCEPT !.starts[k].request = "rejected",
                        !.starts[k].promise = settle(@, "rejected", err.text),
                        !.startupFailures =
                            Append(@, [start |-> k, message |-> err.text,
                                       details |-> ""])]

InstallStartup(t) ==
    \E r \in {t} :
        /\ starts' = r.starts
        /\ startupEvents' = r.startupEvents
        /\ startupFailures' = r.startupFailures

\* ------------------------------------------- MainThreadLanguageRuntime
\* new ExtHostLanguageRuntimeAdapter(handle, metadata, logService, proxy)
NewAdapter ==
    [currentState |-> "uninitialized", clients |-> EmptyMap, eventClock |-> 0,
     eventQueue |-> <<>>, eventQueueTimer |-> FALSE, timeouts |-> 0,
     clientCounter |-> 0,
     instances |-> <<>>, rpcs |-> <<>>, createRequests |-> EmptyMap,
     removeClientCalls |-> <<>>, dispatched |-> <<>>, dropped |-> {},
     exits |-> 0, listed |-> <<>>, created |-> <<>>]

\* The registry, its adapters and what its methods threw, as one value.
Registry ==
    [runtimes |-> runtimes, adapters |-> adapters, thrown |-> thrown,
     unregistered |-> unregistered]

\* new Error(`Unknown language runtime handle: ${handle}`)
UnknownHandleError(handle) == [kind |-> "unknown handle", payload |-> handle]

\* $registerLanguageRuntime(handle, metadata)
registerLanguageRuntime(g, handle) ==
    [g EXCEPT !.adapters = Append(@, NewAdapter),
              !.runtimes = MapSet(@, handle, Len(g.adapters) + 1)]

\* $unregisterLanguageRuntime(handle)
unregisterLanguageRuntime(g, handle) ==
    [g EXCEPT !.runtimes = MapDelete(@, handle),
              !.unregistered = IF handle \in DOMAIN g.runtimes
                               THEN @ \cup {g.runtimes[handle]}
                               ELSE @]

\* the two methods handing the event to every adapter of the registry
emitLanguageRuntimeEvent_Broadcast(g, handle, event) ==
    IF handle \notin DOMAIN g.runtimes
    THEN [g EXCEPT !.thrown = Append(@, [call |-> event.uid,
                                          error |-> UnknownHandleError(handle)])]
    ELSE [g EXCEPT !.adapters =
                       [a \in DOMAIN g.adapters |->
                           addToEventQueue(g.adapters[a], event)]]

\* $emitLanguageRuntimeMessage(handle, message) and
\* $emitLanguageRuntimeState(handle, clock, state): findRuntime(handle), which
\* throws for a handle that is not in _runtimes, then the adapter's
\* handleRuntimeMessage or emitState, which both end in addToEventQueue
emitLanguageRuntimeEvent(g, handle, event) ==
    IF handle \notin DOMAIN g.runtimes
    THEN [g EXCEPT !.thrown = Append(@, [call |-> event.uid,
                                          error |-> UnknownHandleError(handle)])]
    ELSE [g EXCEPT !.adapters[g.runtimes[handle]] = addToEventQueue(@, event)]

InstallRegistry(t) ==
    \E r \in {t} :
        /\ runtimes' = r.runtimes
        /\ adapters' = r.adapters
        /\ thrown' = r.thrown
        /\ unregistered' = r.unregistered

\* ---------------------------------------------------------------- inputs
\* the states the runtime reports in state-change events
InboundStates == {"busy", "exited"}

\* metadata.languageId
LanguageId == "python"

\* Math.floor(Math.random() * 0x100000000).toString(16)
RandomIds == {7}

Requests == {"x", "y"}

PlainMessage ==
    [type |-> "output", comm_id |-> NoId, target_name |-> "", parent_id |-> 0,
     data |-> ""]

CommOpen(id, target) ==
    [type |-> "comm_open", comm_id |-> id, target_name |-> target, parent_id |-> 0,
     data |-> ""]

CommData(id, parent) ==
    [type |-> "comm_data", comm_id |-> id, target_name |-> "", parent_id |-> parent,
     data |-> "d"]

CommClosed(id) ==
    [type |-> "comm_closed", comm_id |-> id, target_name |-> "", parent_id |-> 0,
     data |-> ""]

\* ids the runtime side can name: its own comms and the ones createClient made
KnownIds == RemoteIds \cup {instances[i].id : i \in DOMAIN instances}

CommMessages ==
    {CommOpen(id, t) : id \in RemoteIds, t \in {"positron.plot", "jupyter.widget"}}
    \cup {CommData(id, m) : id \in KnownIds, m \in 0..Len(rpcs)}
    \cup {CommClosed(id) : id \in KnownIds}

\* what $listClients can resolve with: the runtime's comms by id, each with
\* its type, in key order; a comm the session holds is reported under the
\* type it was opened with
RemoteEntries ==
    {e \in [id : KnownIds, type : RuntimeClientType \cup UnknownTypes] :
        e.id \in DOMAIN clients => e.type = instances[clients[e.id]].type}

RemoteClientLists ==
    {<<>>} \cup {<<e>> : e \in RemoteEntries}
    \cup {l \in RemoteEntries \X RemoteEntries : l[1].id # l[2].id}

\* ILanguageRuntimeInfo
RuntimeInfo == "info"

\* what $startLanguageRuntime can reject with: an error with message and
\* details, with a message only, with details only, and a plain string
StartErrors ==
    {[message |-> "failed", details |-> "trace", text |-> "Error: failed"],
     [message |-> "failed", details |-> "", text |-> "Error: failed"],
     [message |-> "", details |-> "trace", text |-> "[object Object]"],
     [message |-> "", details |-> "", text |-> "boom"]}

\* the messages that open and close comms
CommLifecycleMessages == {m \in CommMessages : m.type # "comm_data"}

QueuedRuntimeMessageEvent(clock, message) ==
    [clock |-> clock, kind |-> "message", uid |-> Len(submitted) + 1,
     message |-> message, state |-> ""]

QueuedRuntimeStateEvent(clock, state) ==
    [clock |-> clock, kind |-> "state", uid |-> Len(submitted) + 1,
     message |-> PlainMessage, state |-> state]

\* --------------------------------------------------------------- actions
Init ==
    /\ currentState = "uninitialized"
    /\ clients = EmptyMap
    /\ eventClock = 0
    /\ eventQueue = <<>>
    /\ eventQueueTimer = FALSE
    /\ timeouts = 0
    /\ clientCounter = 0
    /\ instances = <<>>
    /\ rpcs = <<>>
    /\ createRequests = EmptyMap
    /\ removeClientCalls = <<>>
    /\ submitted = <<>>
    /\ dispatched = <<>>
    /\ dropped = {}
    /\ exits = 0
    /\ timerFirings = 0
    /\ disposals = 0
    /\ lifecycleCalls = 0
    /\ listed = <<>>
    /\ created = <<>>
    /\ lifecycleRequests = <<>>
    /\ starts = <<>>
    /\ startupEvents = <<>>
    /\ startupFailures = <<>>
    /\ runtimes = EmptyMap
    /\ adapters = <<>>
    /\ calls = <<>>
    /\ thrown = <<>>
    /\ unregistered = {}

\* a timeout that runs its callback is armed no longer, and clearTimeout
\* on it does nothing
timeoutFired(s) ==
    [s EXCEPT !.timeouts = @ - 1, !.eventQueueTimer = FALSE]

\* $emitLanguageRuntimeMessage -> handleRuntimeMessage(message)
HandleRuntimeMessage(clock, message) ==
    /\ LET event == QueuedRuntimeMessageEvent(clock, message)
       IN /\ Install(addToEventQueue(Session, event))
          /\ submitted' = Append(submitted, event)
    /\ UNCHANGED <<registryVars, timerFirings, disposals, lifecycleCalls,
                 lifecycleRequests, startVars>>

\* $emitLanguageRuntimeState -> emitState(clock, state)
EmitState(clock, state) ==
    /\ LET event == QueuedRuntimeStateEvent(clock, state)
       IN /\ Install(addToEventQueue(Session, event))
          /\ submitted' = Append(submitted, event)
    /\ UNCHANGED <<registryVars, timerFirings, disposals, lifecycleCalls,
                 lifecycleRequests, startVars>>

\* the setTimeout callback armed by addToEventQueue
EventQueueTimeout ==
    /\ eventQueueTimer
    /\ timerFirings' = timerFirings + 1
    /\ UNCHANGED <<registryVars, submitted, disposals, lifecycleCalls,
                 lifecycleRequests, startVars>>
    /\ Install(processEventQueue(timeoutFired(Session)))

\* a lifecycle call that sends the remote request without the local transition
LifecycleCall_RemoteOnly(state) ==
    /\ Install(Session)
    /\ lifecycleCalls' = lifecycleCalls + 1
    /\ lifecycleRequests' =
           Append(lifecycleRequests, [state |-> state, status |-> "pending"])
    /\ UNCHANGED <<registryVars, submitted, timerFirings, disposals, startVars>>

\* interrupt(), restart(), shutdown(): the optimistic local transition
LifecycleCall(state) ==
    /\ Install(fireRuntimeState(Session, state))
    /\ lifecycleCalls' = lifecycleCalls + 1
    /\ lifecycleRequests' =
           Append(lifecycleRequests, [state |-> state, status |-> "pending"])
    /\ UNCHANGED <<registryVars, submitted, timerFirings, disposals, startVars>>

Interrupt == LifecycleCall("interrupting")

Restart == LifecycleCall("restarting")

Shutdown == LifecycleCall("exiting")

CreateClient(type, randomId) ==
    /\ clientCounter < MaxClients
    /\ Install(createClient(Session, LanguageId, type, randomId))
    /\ UNCHANGED <<registryVars, submitted, timerFirings, disposals, lifecycleCalls,
                 lifecycleRequests, startVars>>

CreateClientResolved(i) ==
    /\ i \in DOMAIN createRequests
    /\ createRequests[i] = "pending"
    /\ Install(createClientResolved(Session, i))
    /\ UNCHANGED <<registryVars, submitted, timerFirings, disposals, lifecycleCalls,
                 lifecycleRequests, startVars>>

CreateClientRejected(i) ==
    /\ i \in DOMAIN createRequests
    /\ createRequests[i] = "pending"
    /\ Install(createClientRejected(Session, i))
    /\ UNCHANGED <<registryVars, submitted, timerFirings, disposals, lifecycleCalls,
                 lifecycleRequests, startVars>>

PerformRpc(i, request) ==
    /\ Len(rpcs) < MaxRpcs
    /\ Install(performRpc(Session, i, request))
    /\ UNCHANGED <<registryVars, submitted, timerFirings, disposals, lifecycleCalls,
                 lifecycleRequests, startVars>>

RpcTimeout(m) ==
    /\ rpcs[m].timer
    /\ Install(rpcTimeout(Session, m))
    /\ UNCHANGED <<registryVars, submitted, timerFirings, disposals, lifecycleCalls,
                 lifecycleRequests, startVars>>

\* a consumer holding the instance calls dispose()
Dispose(i) ==
    /\ Install(dispose(Session, i))
    /\ disposals' = disposals + 1
    /\ UNCHANGED <<registryVars, submitted, timerFirings, lifecycleCalls,
                 lifecycleRequests, startVars>>

\* the callback of $listClients(...).then in listClients()
ListClientsResolved(remote) ==
    /\ Len(listed) < MaxLists
    /\ Install(listClients(Session, remote))
    /\ UNCHANGED <<registryVars, submitted, timerFirings, disposals, lifecycleCalls,
                 lifecycleRequests, startVars>>

\* the promise interrupt(), restart() or shutdown() returned resolves
LifecycleResolved(k) ==
    /\ lifecycleRequests[k].status = "pending"
    /\ lifecycleRequests' = [lifecycleRequests EXCEPT ![k].status = "resolved"]
    /\ Install(Session)
    /\ UNCHANGED <<registryVars, submitted, timerFirings, disposals, lifecycleCalls, startVars>>

\* the promise interrupt(), restart() or shutdown() returned rejects: the
\* adapter attaches no handler to it
LifecycleRejected(k) ==
    /\ lifecycleRequests[k].status = "pending"
    /\ lifecycleRequests' = [lifecycleRequests EXCEPT ![k].status = "rejected"]
    /\ Install(Session)
    /\ UNCHANGED <<registryVars, submitted, timerFirings, disposals, lifecycleCalls, startVars>>

Start ==
    /\ Len(starts) < MaxStarts
    /\ InstallStartup(start(Startup))
    /\ Install(Session)
    /\ UNCHANGED <<registryVars, submitted, timerFirings, disposals, lifecycleCalls,
                 lifecycleRequests>>

StartResolved(k) ==
    /\ starts[k].request = "pending"
    /\ InstallStartup(startResolved(Startup, k, RuntimeInfo))
    /\ Install(Session)
    /\ UNCHANGED <<registryVars, submitted, timerFirings, disposals, lifecycleCalls,
                 lifecycleRequests>>

StartRejected(k, err) ==
    /\ starts[k].request = "pending"
    /\ InstallStartup(startRejected(Startup, k, err))
    /\ Install(Session)
    /\ UNCHANGED <<registryVars, submitted, timerFirings, disposals, lifecycleCalls,
                 lifecycleRequests>>

\* the handles the extension host uses
Handles == {1, 2}

\* $registerLanguageRuntime
RegisterLanguageRuntime(handle) ==
    /\ InstallRegistry(registerLanguageRuntime(Registry, handle))
    /\ calls' = Append(calls, [op |-> "register", handle |-> handle])
    /\ UNCHANGED sessionVars

\* $unregisterLanguageRuntime
UnregisterLanguageRuntime(handle) ==
    /\ InstallRegistry(unregisterLanguageRuntime(Registry, handle))
    /\ calls' = Append(calls, [op |-> "unregister", handle |-> handle])
    /\ UNCHANGED sessionVars

\* $emitLanguageRuntimeMessage
EmitLanguageRuntimeMessage(handle, clock, message) ==
    /\ LET event == [QueuedRuntimeMessageEvent(clock, message) EXCEPT
                         !.uid = Len(calls) + 1]
       IN InstallRegistry(emitLanguageRuntimeEvent(Registry, handle, event))
    /\ calls' = Append(calls, [op |-> "message", handle |-> handle])
    /\ UNCHANGED sessionVars

\* $emitLanguageRuntimeState
EmitLanguageRuntimeState(handle, clock, state) ==
    /\ LET event == [QueuedRuntimeStateEvent(clock, state) EXCEPT
                         !.uid = Len(calls) + 1]
       IN InstallRegistry(emitLanguageRuntimeEvent(Registry, handle, event))
    /\ calls' = Append(calls, [op |-> "state", handle |-> handle])
    /\ UNCHANGED sessionVars

\* what a registry call on one adapter leaves alone: everything of the
\* session studied on its own except the static clientCounter
adapterFrame ==
    <<currentState, clients, eventClock, eventQueue, eventQueueTimer, timeouts,
      instances, rpcs, createRequests, removeClientCalls, submitted, dispatched,
      dropped, exits, timerFirings, disposals, lifecycleCalls, listed, created,
      lifecycleRequests, starts, startupEvents, startupFailures>>

\* createClient on a registered adapter that counts in a field of its own
AdapterCreateClient_PerSession(handle, type, randomId) ==
    /\ handle \in DOMAIN runtimes
    /\ LET a == runtimes[handle]
           t == createClient(adapters[a], LanguageId, type, randomId)
       IN /\ InstallRegistry([Registry EXCEPT !.adapters[a] = t])
          /\ clientCounter' = clientCounter + 1
    /\ calls' = Append(calls, [op |-> "createClient", handle |-> handle])
    /\ UNCHANGED adapterFrame

\* createClient(type, params) on the adapter registered under handle:
\* generateClientId reads and increments the static clientCounter, which all
\* adapters of the process share; the adapter record's own clientCounter
\* field holds the value this adapter last left in the static
AdapterCreateClient(handle, type, randomId) ==
    /\ handle \in DOMAIN runtimes
    /\ LET a == runtimes[handle]
           t == createClient([adapters[a] EXCEPT !.clientCounter = clientCounter],
                             LanguageId, type, randomId)
       IN /\ InstallRegistry([Registry EXCEPT !.adapters[a] = t])
          /\ clientCounter' = t.clientCounter
    /\ calls' = Append(calls, [op |-> "createClient", handle |-> handle])
    /\ UNCHANGED adapterFrame

\* the setTimeout callback of adapter a, registered or not
AdapterEventQueueTimeout(a) ==
    /\ adapters[a].eventQueueTimer
    /\ InstallRegistry([Registry EXCEPT
                            !.adapters[a] = processEventQueue(timeoutFired(@))])
    /\ UNCHANGED <<calls, sessionVars>>

\* The session's event handling, comms and RPCs together. listClients runs
\* under SpecComm; start() and the settling of the lifecycle requests, which
\* touch none of this state, run under SpecLifecycle.
Next ==
    \/ \E clock \in 1..MaxClock :
           /\ Len(submitted) < MaxEvents
           /\ HandleRuntimeMessage(clock, PlainMessage)
    \/ \E clock \in 1..MaxClock, message \in CommMessages :
           /\ Len(submitted) < MaxEvents
           /\ HandleRuntimeMessage(clock, message)
    \/ \E clock \in 1..MaxClock, state \in InboundStates :
           /\ Len(submitted) < MaxEvents
           /\ EmitState(clock, state)
    \/ EventQueueTimeout
    \/ lifecycleCalls < MaxLifecycle /\ Interrupt
    \/ lifecycleCalls < MaxLifecycle /\ Restart
    \/ lifecycleCalls < MaxLifecycle /\ Shutdown
    \/ \E randomId \in RandomIds : CreateClient("positron.environment", randomId)
    \/ \E i \in DOMAIN instances : CreateClientResolved(i)
    \/ \E i \in DOMAIN instances : CreateClientRejected(i)
    \/ \E i \in DOMAIN instances, request \in Requests : PerformRpc(i, request)
    \/ \E m \in DOMAIN rpcs : RpcTimeout(m)
    \/ \E i \in DOMAIN instances :
           /\ disposals < MaxDisposals
           /\ Dispose(i)

Spec == Init /\ [][Next]_vars

\* The reorder buffer alone: plain messages, state changes, the recovery
\* timer and the lifecycle calls, with no comm traffic.
NextQueue ==
    \/ \E clock \in 1..MaxQueueClock :
           /\ Len(submitted) < MaxQueueEvents
           /\ HandleRuntimeMessage(clock, PlainMessage)
    \/ \E clock \in 1..MaxQueueClock, state \in InboundStates :
           /\ Len(submitted) < MaxQueueEvents
           /\ EmitState(clock, state)
    \/ EventQueueTimeout
    \/ lifecycleCalls < MaxLifecycle /\ Interrupt
    \/ lifecycleCalls < MaxLifecycle /\ Restart
    \/ lifecycleCalls < MaxLifecycle /\ Shutdown

SpecQueue == Init /\ [][NextQueue]_vars

\* The reorder buffer with its recovery timer running: the timeout is a
\* setTimeout, so once armed it fires unless a flush clears it first.
NextBuffer ==
    \/ \E clock \in 1..MaxBufferClock :
           /\ Len(submitted) < MaxBufferEvents
           /\ HandleRuntimeMessage(clock, PlainMessage)
    \/ \E clock \in 1..MaxBufferClock, state \in InboundStates :
           /\ Len(submitted) < MaxBufferEvents
           /\ EmitState(clock, state)
    \/ EventQueueTimeout

SpecBufferFair == Init /\ [][NextBuffer]_vars /\ WF_vars(EventQueueTimeout)

\* The comms the runtime opens and their RPCs, in a session whose events
\* arrive in clock order (each event is the next in sequence, so none is
\* late and none waits for the timer).
NextRpc ==
    \/ \E message \in CommMessages :
           /\ Len(submitted) < MaxRpcEvents
           /\ HandleRuntimeMessage(eventClock + 1, message)
    \/ \E state \in InboundStates :
           /\ Len(submitted) < MaxRpcEvents
           /\ EmitState(eventClock + 1, state)
    \/ \E i \in DOMAIN instances, request \in Requests : PerformRpc(i, request)
    \/ \E m \in DOMAIN rpcs : RpcTimeout(m)
    \/ \E i \in DOMAIN instances :
           /\ disposals < MaxDisposals
           /\ Dispose(i)

SpecRpc == Init /\ [][NextRpc]_vars

\* The comms createClient makes and the ones the runtime opens or
\* listClients adopts, in a session whose events arrive in clock order.
CommOps == Len(submitted) + clientCounter + Len(listed) + disposals

NextComm ==
    \/ \E message \in CommLifecycleMessages :
           /\ CommOps < MaxCommOps
           /\ HandleRuntimeMessage(eventClock + 1, message)
    \/ \E state \in InboundStates :
           /\ CommOps < MaxCommOps
           /\ EmitState(eventClock + 1, state)
    \/ \E randomId \in RandomIds :
           /\ CommOps < MaxCommOps
           /\ CreateClient("positron.environment", randomId)
    \/ \E i \in DOMAIN instances : CreateClientResolved(i)
    \/ \E i \in DOMAIN instances : CreateClientRejected(i)
    \/ \E remote \in {l \in RemoteClientLists : Len(l) <= 1} :
           /\ CommOps < MaxCommOps
           /\ ListClientsResolved(remote)
    \/ \E i \in DOMAIN instances :
           /\ CommOps < MaxCommOps
           /\ disposals < MaxDisposals
           /\ Dispose(i)

SpecComm == Init /\ [][NextComm]_vars

\* The lifecycle calls and start() with their remote requests settling,
\* in a session whose state-change events arrive in clock order.
NextLifecycle ==
    \/ \E state \in InboundStates :
           /\ Len(submitted) < MaxLifecycleEvents
           /\ EmitState(eventClock + 1, state)
    \/ lifecycleCalls < MaxLifecycle /\ Interrupt
    \/ lifecycleCalls < MaxLifecycle /\ Restart
    \/ lifecycleCalls < MaxLifecycle /\ Shutdown
    \/ \E k \in DOMAIN lifecycleRequests : LifecycleResolved(k)
    \/ \E k \in DOMAIN lifecycleRequests : LifecycleRejected(k)
    \/ Start
    \/ \E k \in DOMAIN starts : StartResolved(k)
    \/ \E k \in DOMAIN starts, err \in StartErrors : StartRejected(k, err)

SpecLifecycle == Init /\ [][NextLifecycle]_vars

\* Consumers disposing the comms they hold, as often as they like: comms
\* the runtime opened and comms createClient made, events in clock order.
NextDispose ==
    \/ \E message \in CommLifecycleMessages :
           /\ Len(submitted) < MaxDisposeEvents
           /\ HandleRuntimeMessage(eventClock + 1, message)
    \/ \E state \in InboundStates :
           /\ Len(submitted) < MaxDisposeEvents
           /\ EmitState(eventClock + 1, state)
    \/ \E randomId \in RandomIds : CreateClient("positron.environment", randomId)
    \/ \E i \in DOMAIN instances : CreateClientResolved(i)
    \/ \E i \in DOMAIN instances : CreateClientRejected(i)
    \/ \E i \in DOMAIN instances :
           /\ disposals < MaxDisposeCalls
           /\ Dispose(i)

SpecDispose == Init /\ [][NextDispose]_vars

\* The registry: the extension host registers and unregisters handles and
\* routes events to them, and the adapters' recovery timers fire.
NextRegistry ==
    \/ \E handle \in Handles :
           /\ Len(calls) < MaxRegistryCalls
           /\ RegisterLanguageRuntime(handle)
    \/ \E handle \in Handles :
           /\ Len(calls) < MaxRegistryCalls
           /\ UnregisterLanguageRuntime(handle)
    \/ \E handle \in Handles, clock \in 1..MaxRegistryClock :
           /\ Len(calls) < MaxRegistryCalls
           /\ EmitLanguageRuntimeMessage(handle, clock, PlainMessage)
    \/ \E handle \in Handles, clock \in 1..MaxRegistryClock,
          state \in InboundStates :
           /\ Len(calls) < MaxRegistryCalls
           /\ EmitLanguageRuntimeState(handle, clock, state)
    \/ \E handle \in Handles, randomId \in RandomIds :
           /\ Len(calls) < MaxRegistryCalls
           /\ AdapterCreateClient(handle, "positron.environment", randomId)
    \/ \E a \in DOMAIN adapters : AdapterEventQueueTimeout(a)

SpecRegistry == Init /\ [][NextRegistry]_vars

\* ------------------------------------------------------------ properties
ClockOf(uid) == submitted[uid].clock

KindOf(uid) == submitted[uid].kind

Last(q) == q[Len(q)]

DistinctClocks ==
    \A i, j \in DOMAIN submitted : i # j => submitted[i].clock # submitted[j].clock

QueuedUids == {eventQueue[k].uid : k \in DOMAIN eventQueue}

DispatchedUids == {dispatched[k] : k \in DOMAIN dispatched}

LateSubmit ==
    /\ Len(submitted') = Len(submitted) + 1
    /\ Last(submitted').clock < eventClock

\* C2: an event submitted with a clock below the observed clock is, when it
\* is a message, dispatched exactly once and within the submit call, and, when
\* it is a state change, dropped: not dispatched then or later, and the
\* runtime state stays as it was.
C2_LateEventHandling ==
    /\ [][LateSubmit =>
            IF Last(submitted').kind = "message"
            THEN dispatched' = Append(dispatched, Last(submitted').uid)
            ELSE /\ dispatched' = dispatched
                 /\ currentState' = currentState
                 /\ Last(submitted').uid \in dropped'
                 /\ eventQueue' = eventQueue]_vars
    /\ [](/\ dropped \cap DispatchedUids = {}
          /\ dropped \cap QueuedUids = {}
          /\ \A i, j \in DOMAIN dispatched : i # j => dispatched[i] # dispatched[j])

\* a late state change was dropped, and a message was dispatched after an
\* event with a greater clock, which only the late path does
C2_Witness ==
    /\ dropped # {}
    /\ \E i, j \in DOMAIN dispatched :
           /\ i < j
           /\ ClockOf(dispatched[i]) > ClockOf(dispatched[j])
           /\ KindOf(dispatched[j]) = "message"

\* C3: the observed clock never decreases from one state to the next.
C3_ClockMonotonic == [][eventClock' >= eventClock]_vars

\* the clock advanced by in-order flushes and by a timer flush, with a late
\* event and a lifecycle call handled on the way
C3_Witness ==
    /\ eventClock >= 3
    /\ timerFirings >= 1
    /\ dropped # {}
    /\ lifecycleCalls >= 1

SubmittedClocks == [k \in DOMAIN submitted |-> submitted[k].clock]

AllMessages == \A k \in DOMAIN submitted : submitted[k].kind = "message"

\* C4: on a fresh session, messages with clocks 3, 1, 2 submitted in that
\* order are each dispatched on arrival, in the order 3, 1, 2; nothing is
\* buffered and the observed clock is 3 from the first arrival on.
C4_Scenario312 ==
    \A k \in 1..3 :
        (AllMessages /\ SubmittedClocks = SubSeq(<<3, 1, 2>>, 1, k))
            => /\ dispatched = [n \in 1..k |-> n]
               /\ eventQueue = <<>>
               /\ ~eventQueueTimer
               /\ eventClock = 3

C4_Witness ==
    /\ AllMessages
    /\ SubmittedClocks = <<3, 1, 2>>
    /\ dispatched = <<1, 2, 3>>

\* C5: every event placed in the reorder buffer is eventually dispatched,
\* by a later submit that flushes or by the recovery timer: an event leaves
\* the buffer only by being dispatched, and a non-empty buffer is eventually
\* emptied.
C5_BufferedEventuallyDispatched ==
    /\ [][\A uid \in QueuedUids :
              uid \notin QueuedUids' => uid \in DispatchedUids']_vars
    /\ (eventQueue # <<>>) ~> (eventQueue = <<>>)

\* a backlog was flushed by the timer, with three events dispatched in all
C5_Witness ==
    /\ timerFirings >= 1
    /\ eventQueue = <<>>
    /\ Len(dispatched) >= 3

\* a step in which the state listener ran with Exited, for the one event the
\* step dispatched
ExitStep ==
    /\ exits' = exits + 1
    /\ Len(dispatched') = Len(dispatched) + 1

\* the comms the session holds that are not Closed
OpenComms == {i \in Range(clients) : instances[i].state # "closed"}

\* C6: when the runtime state becomes Exited, every comm that was open in the
\* session (Opening included) is Closed at the end of the step and the
\* session's comm map is empty.
C6_ExitClosesEveryComm ==
    [][ExitStep =>
          /\ \A i \in OpenComms : instances'[i].state = "closed"
          /\ DOMAIN clients' = {}]_vars

\* the RPCs still awaiting an answer on the comms the session holds
PendingRpcsOfSession ==
    {m \in DOMAIN rpcs :
        /\ rpcs[m].client \in Range(clients)
        /\ m \in instances[rpcs[m].client].pendingRpcs
        /\ rpcs[m].promise.p = Pending}

\* C7: when the runtime state becomes Exited, every RPC pending on a comm of
\* the session is rejected with the 'runtime exited' error in that step.
C7_ExitRejectsPendingRpcs ==
    [][ExitStep =>
          \A m \in PendingRpcsOfSession : rpcs'[m].promise.p = ExitedError]_vars

\* C8: every RPC promise is settled at most once, and once it is settled
\* (by response, timeout or dispose) its id is no longer in the comm's
\* pending-RPC map.
C8_SettledOnceAndRemoved ==
    \A m \in DOMAIN rpcs :
        /\ rpcs[m].promise.calls <= 1
        /\ rpcs[m].promise.p # Pending
               => m \notin instances[rpcs[m].client].pendingRpcs

\* C9: an RPC that gets no response and whose comm is not disposed stays
\* pending until its timeout fires, and is then rejected, once, with the
\* timeout error carrying its request, its id gone from the pending-RPC map.
C9_TimeoutSettlesOnce ==
    \A m \in DOMAIN rpcs :
        LET r == rpcs[m]
            c == instances[r.client]
        IN (~c.disposed /\ r.promise.p.kind # "resolved")
               => IF r.timer
                  THEN /\ r.promise.p = Pending
                       /\ r.promise.calls = 0
                       /\ m \in c.pendingRpcs
                  ELSE /\ r.promise.p = TimeoutError(r.request)
                       /\ r.promise.calls = 1
                       /\ r.promise.rejected /\ ~r.promise.resolved
                       /\ m \notin c.pendingRpcs

\* an RPC timed out on a comm that was not disposed, and the response that
\* came afterwards went to the data subscribers
C9_Witness ==
    \E m \in DOMAIN rpcs :
        /\ ~rpcs[m].timer
        /\ rpcs[m].promise.p = TimeoutError(rpcs[m].request)
        /\ ~instances[rpcs[m].client].disposed
        /\ instances[rpcs[m].client].received >= 1

\* C10: when an instance returned by createClient is disposed before the
\* creation request settles, then once the acknowledgement or rejection has
\* been processed its state is Closed and its pending-RPC map is empty.
C10_DisposedBeforeAckEndsClosed ==
    [][\A i \in DOMAIN createRequests :
           (/\ createRequests[i] = "pending"
            /\ instances[i].disposed
            /\ createRequests'[i] # "pending")
               => /\ instances'[i].state = "closed"
                  /\ instances'[i].pendingRpcs = {}]_vars

\* C11: a comm made by createClient is Opening when createClient returns; it
\* becomes Connected only in the step where its creation acknowledgement
\* arrives and finds it still Opening; an acknowledgement that finds it Closed
\* leaves it Closed.
C11_AckConnectsOnlyFromOpening ==
    [][/\ \A i \in DOMAIN createRequests' \ DOMAIN createRequests :
              /\ createRequests'[i] = "pending"
              /\ instances'[i].state = "opening"
       /\ \A i \in DOMAIN createRequests :
              /\ (instances[i].state # "connected"
                     /\ instances'[i].state = "connected")
                 => /\ createRequests[i] = "pending"
                    /\ createRequests'[i] = "resolved"
                    /\ instances[i].state = "opening"
              /\ (createRequests[i] = "pending" /\ createRequests'[i] = "resolved"
                     /\ instances[i].state = "closed")
                 => instances'[i].state = "closed"]_vars

\* a created comm closed by a Comm-closed event whose acknowledgement then
\* arrived
C11_Witness ==
    \E i \in DOMAIN createRequests :
        /\ createRequests[i] = "resolved"
        /\ instances[i].state = "closed"
        /\ instances[i].id \in DOMAIN clients
        /\ clients[instances[i].id] = i

\* the states instance i went through, from its construction on
StateHistory(i) == <<"uninitialized">> \o instances[i].observed

\* C12: once a comm instance has been Closed, every state it takes
\* afterwards is Closed, whatever operation runs.
C12_ClosedIsTerminal ==
    \A i \in DOMAIN instances :
        \A k \in DOMAIN instances[i].observed :
            instances[i].observed[k] = "closed"
            => /\ instances[i].state = "closed"
               /\ \A l \in k..Len(instances[i].observed) :
                      instances[i].observed[l] = "closed"

\* a Closed instance on which a later operation set a state again
C12_Witness ==
    \E i \in DOMAIN instances :
        \E k \in DOMAIN instances[i].observed :
            /\ k < Len(instances[i].observed)
            /\ instances[i].observed[k] = "closed"

\* C13: for every comm id at most one instance with that id is not Closed.
C13_OneLiveInstancePerId ==
    \A i, j \in DOMAIN instances :
        (i # j /\ instances[i].id = instances[j].id
             /\ instances[i].state # "closed")
        => instances[j].state = "closed"

LifecycleEdges ==
    {<<"uninitialized", "opening">>, <<"opening", "connected">>,
     <<"connected", "closing">>, <<"closing", "closed">>,
     <<"opening", "closed">>}

\* the edges a comm the runtime opened or listClients adopted takes at its
\* construction, and a Connected comm takes on a Comm-closed event
DirectEdges == {<<"uninitialized", "connected">>, <<"connected", "closed">>}

FollowsEdges(i, edges) ==
    \A k \in 1..Len(instances[i].observed) :
        StateHistory(i)[k] # StateHistory(i)[k + 1]
        => <<StateHistory(i)[k], StateHistory(i)[k + 1]>> \in edges

\* C14 as claimed: every state change of a comm instance follows one of the
\* edges Uninitialized->Opening, Opening->Connected, Connected->Closing,
\* Closing->Closed, Opening->Closed.
C14_OnlyLifecycleEdges ==
    \A i \in DOMAIN instances : FollowsEdges(i, LifecycleEdges)

\* C14 amended: every state change of a comm instance follows one of those
\* edges or Uninitialized->Connected (a comm opened by the runtime or adopted
\* by listClients) or Connected->Closed (a Comm-closed event).
C14_OnlyLifecycleOrDirectEdges ==
    \A i \in DOMAIN instances :
        FollowsEdges(i, LifecycleEdges \cup DirectEdges)

\* a comm the runtime opened and then closed, and a comm the exit closed
C14_Witness ==
    /\ \E i \in DOMAIN instances :
           instances[i].observed = <<"connected", "closed">>
    /\ \E i \in DOMAIN instances :
           instances[i].observed = <<"opening", "connected", "closing", "closed">>

\* C15: once the session's RuntimeState is Exited, no later state-change
\* event and no interrupt, restart or shutdown call changes it.
C15_ExitedIsTerminal ==
    [][currentState = "exited" => currentState' = "exited"]_vars

\* C16: interrupt, restart and shutdown set the local RuntimeState to their
\* transitional state in the step that sends the remote request, while that
\* request is still pending; when the request settles (rejected or not) the
\* local state is left as it is, and it changes only when a state-change
\* event is applied or another lifecycle call is made.
C16_OptimisticStateNotRolledBack ==
    [][/\ \A k \in DOMAIN lifecycleRequests' \ DOMAIN lifecycleRequests :
              /\ lifecycleRequests'[k].status = "pending"
              /\ currentState' = lifecycleRequests'[k].state
       /\ \A k \in DOMAIN lifecycleRequests :
              lifecycleRequests'[k].status # lifecycleRequests[k].status
              => currentState' = currentState
       /\ currentState' # currentState
          => \/ Len(lifecycleRequests') > Len(lifecycleRequests)
             \/ Len(dispatched') > Len(dispatched)]_vars

\* a rejected request whose transitional state is still the local state
C16_Witness ==
    \E k \in DOMAIN lifecycleRequests :
        /\ lifecycleRequests[k].status = "rejected"
        /\ currentState = lifecycleRequests[k].state

StartupEventsOf(k) ==
    {e \in DOMAIN startupEvents : startupEvents[e].start = k}

StartupFailuresOf(k) ==
    {e \in DOMAIN startupFailures : startupFailures[e].start = k}

Delivers(uid) ==
    /\ Len(dispatched') = Len(dispatched) + 1
    /\ Last(dispatched') = uid

\* this step runs the handler of a message of the given type for a comm id
\* that is a key of the comm map
DeliversToKnownComm(uid, type) ==
    /\ Delivers(uid)
    /\ submitted'[uid].kind = "message"
    /\ submitted'[uid].message.type = type
    /\ submitted'[uid].message.comm_id \in DOMAIN clients

\* emitData(message) on instance i took exactly one of its two routes; a
\* disposed instance has no data subscribers left to notify
RoutedToOne(i, message) ==
    IF message.parent_id \in instances[i].pendingRpcs
    THEN /\ rpcs'[message.parent_id].promise.p =
                [kind |-> "resolved", payload |-> message.data]
         /\ instances'[i].pendingRpcs =
                instances[i].pendingRpcs \ {message.parent_id}
         /\ instances'[i].received = instances[i].received
    ELSE /\ instances[i].disposed
            \/ instances'[i].received = instances[i].received + 1
         /\ instances'[i].pendingRpcs = instances[i].pendingRpcs
         /\ rpcs' = rpcs

\* C18: emitData routes each inbound message to exactly one destination: a
\* message whose parent id is a key of the pending-RPC map completes that
\* promise with the message data and removes the key, and the data
\* subscribers are not notified; any other message is given to the data
\* subscribers and leaves the map unchanged.
C18_RoutedToExactlyOne ==
    [][\A uid \in DOMAIN submitted' :
           DeliversToKnownComm(uid, "comm_data")
           => RoutedToOne(clients[submitted'[uid].message.comm_id],
                          submitted'[uid].message)]_vars

\* a consumer's first dispose() of instance i did what the claim says
DisposedAsClaimed(i) ==
    /\ \A m \in instances[i].pendingRpcs : rpcs'[m].promise.p = ExitedError
    /\ CASE instances[i].state = "connected" ->
               /\ instances'[i].observed =
                      instances[i].observed \o <<"closing", "closed">>
               /\ removeClientCalls' = Append(removeClientCalls, instances[i].id)
               /\ instances'[i].state = "closed"
         [] instances[i].state = "closed" ->
               /\ instances'[i].observed = instances[i].observed
               /\ removeClientCalls' = removeClientCalls
         [] OTHER ->
               /\ instances'[i].state = "closed"
               /\ removeClientCalls' = removeClientCalls

\* C19: disposing a comm instance rejects its pending RPCs with the exited
\* error; a Connected one has its state subscribers observe Closing, then
\* Closed, with one remote removal request, and ends Closed; one that is
\* neither Connected nor Closed ends Closed with no removal request; a Closed
\* one raises no state event and no removal request.
C19_DisposeClosesTheComm ==
    [][\A i \in DOMAIN instances :
           (/\ disposals' = disposals + 1
            /\ ~instances[i].disposed
            /\ instances'[i].disposed)
           => DisposedAsClaimed(i)]_vars

\* C20: the second delivery of a Comm-closed event for a comm id in the map
\* leaves that comm Closed, issues no removal request and cancels no RPC.
C20_RepeatedCommClosed ==
    [][\A uid \in DOMAIN submitted' :
           (/\ DeliversToKnownComm(uid, "comm_closed")
            /\ \E k \in DOMAIN dispatched :
                   submitted[dispatched[k]].message = submitted'[uid].message)
           => /\ instances'[clients[submitted'[uid].message.comm_id]].state
                     = "closed"
              /\ removeClientCalls' = removeClientCalls
              /\ rpcs' = rpcs]_vars

\* C21: a Comm-open event whose target is not a recognized client type adds
\* nothing to the comm map, constructs no instance, raises no 'created'
\* notification and issues exactly one removal request, for that comm id.
C21_UnknownTypeIsRemoved ==
    [][\A uid \in DOMAIN submitted' :
           (/\ Delivers(uid)
            /\ submitted'[uid].kind = "message"
            /\ submitted'[uid].message.type = "comm_open"
            /\ submitted'[uid].message.target_name \notin RuntimeClientType)
           => /\ clients' = clients
              /\ instances' = instances
              /\ created' = created
              /\ removeClientCalls' =
                     Append(removeClientCalls, submitted'[uid].message.comm_id)]_vars

\* a Comm-open for an unknown type arrived next to a comm the session holds
C21_Witness ==
    /\ clients # EmptyMap
    /\ \E k \in DOMAIN dispatched :
           /\ submitted[dispatched[k]].message.type = "comm_open"
           /\ submitted[dispatched[k]].message.target_name \in UnknownTypes
    /\ \E k \in DOMAIN removeClientCalls : removeClientCalls[k] \in RemoteIds

RemoteIdsOf(remote) == {remote[k].id : k \in DOMAIN remote}

ListedInstances(k) == Range(listed[k].instances)

\* C22: when a listClients response is processed, a comm of the map whose id
\* the response does not name keeps its entry and its state; an id of the
\* response that is not in the map and has a recognized type enters the map
\* as a new instance, Connected, and is returned; an id of the response with
\* an unrecognized type is neither added to the map nor returned.
C22_ListClientsReconciles ==
    [][Len(listed') = Len(listed) + 1
       => LET remote == listed'[Len(listed')].remote
              result == Range(listed'[Len(listed')].instances)
          IN /\ \A id \in DOMAIN clients \ RemoteIdsOf(remote) :
                    /\ id \in DOMAIN clients'
                    /\ clients'[id] = clients[id]
                    /\ instances'[clients[id]].state = instances[clients[id]].state
             /\ \A k \in DOMAIN remote :
                    /\ (remote[k].id \notin DOMAIN clients
                           /\ remote[k].type \in RuntimeClientType)
                       => /\ remote[k].id \in DOMAIN clients'
                          /\ clients'[remote[k].id] \notin DOMAIN instances
                          /\ instances'[clients'[remote[k].id]].state = "connected"
                          /\ clients'[remote[k].id] \in result
                    /\ remote[k].type \notin RuntimeClientType
                       => /\ remote[k].id \notin DOMAIN clients'
                          /\ \A i \in result : instances'[i].id # remote[k].id]_vars

\* a response that left a comm still being created alone and adopted a comm
\* the session did not know
C22_Witness ==
    \E k \in DOMAIN listed :
        /\ \E i \in ListedInstances(k) :
               /\ i \notin DOMAIN createRequests
               /\ \A n \in DOMAIN created : created[n].client # i
               /\ instances[i].state = "connected"
        /\ \E i \in DOMAIN createRequests :
               /\ createRequests[i] = "pending"
               /\ instances[i].state = "opening"
               /\ i \notin ListedInstances(k)
               /\ instances[i].id \in DOMAIN clients

\* the uids this step handed to the subscribers, in order
NewlyDispatched == SubSeq(dispatched', Len(dispatched) + 1, Len(dispatched'))

\* this step is a call of addToEventQueue
SubmitStep == Len(submitted') = Len(submitted) + 1

\* this step flushed the reorder buffer: it dispatched events, and not as a
\* late message handed over out of order
FlushStep ==
    /\ Len(dispatched') > Len(dispatched)
    /\ SubmitStep => Last(submitted').clock >= eventClock

\* C23: whenever the reorder buffer flushes, at once or on the timer, every
\* buffered event is dispatched, in ascending clock order, the observed clock
\* is then the largest flushed clock, the buffer is empty and the recovery
\* timer is disarmed.
C23_FlushInClockOrder ==
    [][FlushStep
       => /\ Range(NewlyDispatched) =
                 QueuedUids \cup (IF SubmitStep THEN {Last(submitted').uid} ELSE {})
          /\ \A a, b \in DOMAIN NewlyDispatched :
                 a < b => submitted'[NewlyDispatched[a]].clock
                              <= submitted'[NewlyDispatched[b]].clock
          /\ eventClock' = submitted'[Last(NewlyDispatched)].clock
          /\ eventQueue' = <<>>
          /\ ~eventQueueTimer']_vars

\* the timer flushed two events that had arrived in descending clock order
C23_Witness ==
    /\ timerFirings >= 1
    /\ eventQueue = <<>>
    /\ \E k \in 1..(Len(dispatched) - 1) :
           /\ dispatched[k] > dispatched[k + 1]
           /\ ClockOf(dispatched[k]) < ClockOf(dispatched[k + 1])

\* C24: a submitted event whose clock is the observed clock plus one, or that
\* is the first event the session receives, is dispatched within its submit
\* call together with everything buffered; any armed recovery timer is
\* cancelled and nothing stays buffered.
C24_InOrderEventFlushesBacklog ==
    [][(/\ SubmitStep
        /\ \/ Last(submitted').clock = eventClock + 1
           \/ submitted = <<>>)
       => /\ QueuedUids \cup {Last(submitted').uid} \subseteq Range(NewlyDispatched)
          /\ eventQueue' = <<>>
          /\ ~eventQueueTimer']_vars

\* an event closed the gap while the timer was armed: the backlog went out
\* with it and the timer never fired
C24_Witness ==
    /\ timerFirings = 0
    /\ ~eventQueueTimer
    /\ eventQueue = <<>>
    /\ \E k \in 1..(Len(dispatched) - 1) :
           /\ dispatched[k] > dispatched[k + 1]
           /\ ClockOf(dispatched[k]) = eventClock - 1
           /\ ClockOf(dispatched[k + 1]) = eventClock

\* C25: the state changes received from the runtime are applied in
\* non-decreasing clock order: none is applied after one with a greater clock.
C25_AppliedStateClocksAscend ==
    \A a, b \in DOMAIN dispatched :
        (a < b /\ KindOf(dispatched[a]) = "state" /\ KindOf(dispatched[b]) = "state")
        => ClockOf(dispatched[a]) <= ClockOf(dispatched[b])

\* two state changes were applied and an older one that came later was dropped
C25_Witness ==
    /\ \E u \in dropped : \E k \in DOMAIN dispatched :
           /\ KindOf(dispatched[k]) = "state"
           /\ ClockOf(u) < ClockOf(dispatched[k])
    /\ \E a, b \in DOMAIN dispatched :
           a < b /\ KindOf(dispatched[a]) = "state" /\ KindOf(dispatched[b]) = "state"

\* C26: whenever the session's RuntimeState is Exited, its comm map is empty
\* and none of its comm instances is Connected or Opening.
C26_ExitedLeavesNoLiveComm ==
    currentState = "exited"
    => /\ clients = EmptyMap
       /\ \A i \in DOMAIN instances :
              instances[i].state \notin {"connected", "opening"}

\* C27: when the creation request of a comm made by createClient is
\* rejected, the comm's state becomes Closed and its id leaves the comm map;
\* it is not Connected afterwards.
C27_CreationFailureCloses ==
    [][\A i \in DOMAIN createRequests :
           /\ (createRequests[i] = "pending" /\ createRequests'[i] = "rejected")
              => /\ instances'[i].state = "closed"
                 /\ instances[i].id \notin DOMAIN clients'
           /\ createRequests[i] = "rejected"
              => instances'[i].state # "connected"]_vars

\* C28: the comm map holds no instance whose state is Closed.
C28_NoClosedCommInMap ==
    \A id \in DOMAIN clients : instances[clients[id]].state # "closed"

\* this step runs the handler of a message of the given type for a comm id
\* that is not a key of the comm map
DeliversToUnknownComm(uid, type) ==
    /\ Delivers(uid)
    /\ submitted'[uid].kind = "message"
    /\ submitted'[uid].message.type = type
    /\ submitted'[uid].message.comm_id \notin DOMAIN clients

\* C29: a Comm-data or Comm-closed event naming a comm id that is not in the
\* comm map is dropped: no instance is constructed, and the comm map, every
\* comm's state and pending RPCs, and the RuntimeState stay as they are.
C29_UnknownCommDropped ==
    [][\A uid \in DOMAIN submitted' :
           (\/ DeliversToUnknownComm(uid, "comm_data")
            \/ DeliversToUnknownComm(uid, "comm_closed"))
           => /\ clients' = clients
              /\ instances' = instances
              /\ rpcs' = rpcs
              /\ created' = created
              /\ removeClientCalls' = removeClientCalls
              /\ currentState' = currentState]_vars

\* a Comm-data or Comm-closed event for a comm the exit had just dropped
\* from the map
C29_Witness ==
    /\ Len(dispatched) >= 3
    /\ instances # <<>>
    /\ clients = EmptyMap
    /\ submitted[dispatched[Len(dispatched) - 1]].state = "exited"
    /\ submitted[Last(dispatched)].message.type \in {"comm_data", "comm_closed"}
    /\ submitted[Last(dispatched)].message.comm_id
           \in {instances[i].id : i \in DOMAIN instances}

\* C30: an inbound message or state change for a handle that is not
\* registered raises no error to its caller and changes no session's state.
C30_UnknownHandleDropped ==
    [][(/\ Len(calls') = Len(calls) + 1
        /\ Last(calls').op \in {"message", "state"}
        /\ Last(calls').handle \notin DOMAIN runtimes)
       => /\ thrown' = thrown
          /\ adapters' = adapters]_vars

\* C31: a Comm-open event with a recognized target type puts exactly one new
\* instance into the comm map under that comm id, in state Connected, and
\* raises exactly one 'created' notification, which carries that instance
\* and is raised when the instance is already Connected.
C31_KnownTypeIsOpened ==
    [][\A uid \in DOMAIN submitted' :
           (/\ Delivers(uid)
            /\ submitted'[uid].kind = "message"
            /\ submitted'[uid].message.type = "comm_open"
            /\ submitted'[uid].message.target_name \in RuntimeClientType)
           => LET i == Len(instances) + 1
                  m == submitted'[uid].message
              IN /\ Len(instances') = i
                 /\ SubSeq(instances', 1, Len(instances)) = instances
                 /\ instances'[i].id = m.comm_id
                 /\ instances'[i].type = m.target_name
                 /\ instances'[i].state = "connected"
                 /\ clients' = MapSet(clients, m.comm_id, i)
                 /\ created' =
                        Append(created, [client |-> i, state |-> "connected"])
                 /\ removeClientCalls' = removeClientCalls]_vars

\* a comm the runtime opened is in the map, connected, and was announced once
C31_Witness ==
    \E n \in DOMAIN created :
        /\ created[n].state = "connected"
        /\ instances[created[n].client].state = "connected"
        /\ instances[created[n].client].id \in DOMAIN clients
        /\ clients[instances[created[n].client].id] = created[n].client
        /\ \A k \in DOMAIN created : k # n => created[k].client # created[n].client

\* C32: once dispose() has been called on a comm instance, no later inbound
\* Comm-data message for its id reaches its data subscribers: whatever
\* arrives, the count of messages they received stays what it was.
C32_NoDataAfterDispose ==
    [][\A i \in DOMAIN instances :
           instances[i].disposeCalls > 0
           => instances'[i].received = instances[i].received]_vars

\* a Comm-data event that is no RPC response was handled for a comm that is
\* still in the map and had been disposed before it was ever sent data
C32_Witness ==
    /\ Len(instances) = 1
    /\ instances[1].disposeCalls > 0
    /\ instances[1].received = 0
    /\ instances[1].id \in DOMAIN clients
    /\ \E k \in DOMAIN dispatched :
           /\ k > 1
           /\ submitted[dispatched[k]].message.type = "comm_data"
           /\ submitted[dispatched[k]].message.comm_id = instances[1].id
           /\ submitted[dispatched[k]].message.parent_id = 0
           /\ submitted[dispatched[1]].message.type = "comm_open"
           /\ submitted[dispatched[1]].message.comm_id = instances[1].id
           /\ submitted[dispatched[1]].message.target_name \in RuntimeClientType

\* C33: after $unregisterLanguageRuntime(handle) the session is destroyed:
\* nothing is dispatched to its subscribers any more, neither an event
\* routed by handle nor one its reorder buffer held at that time (the
\* recovery timer does not flush it later).
C33_UnregisteredSessionIsSilent ==
    [][\A a \in unregistered :
           /\ adapters'[a].dispatched = adapters[a].dispatched
           /\ adapters'[a].currentState = adapters[a].currentState]_vars

\* the instances createClient made, over all adapters of the process
Generated(ad) ==
    UNION {{<<a, i>> : i \in DOMAIN ad[a].createRequests} : a \in DOMAIN ad}

\* the id of such an instance, and the counter embedded in it
IdOf(ad, x) == ad[x[1]].instances[x[2]].id

CounterOf(ad, x) == IdOf(ad, x)[3]

\* C34: the ids createClient generates are pairwise distinct over all calls
\* in all sessions of the process whatever the random part is, because the
\* counter embedded in each id is the process-wide counter, which every
\* call increases by one.
C34_GeneratedIdsDistinct ==
    [][/\ \A x, y \in Generated(adapters') :
              x # y => /\ CounterOf(adapters', x) # CounterOf(adapters', y)
                       /\ IdOf(adapters', x) # IdOf(adapters', y)
       /\ \A x \in Generated(adapters') \ Generated(adapters) :
              /\ CounterOf(adapters', x) = clientCounter
              /\ clientCounter' = clientCounter + 1
              /\ \A y \in Generated(adapters) :
                     CounterOf(adapters, y) < CounterOf(adapters', x)]_vars

\* two sessions each made a comm of the same type with the same random part
C34_Witness ==
    \E x, y \in Generated(adapters) :
        /\ x[1] # y[1]
        /\ IdOf(adapters, x)[1] = IdOf(adapters, y)[1]
        /\ IdOf(adapters, x)[2] = IdOf(adapters, y)[2]
        /\ IdOf(adapters, x)[4] = IdOf(adapters, y)[4]
        /\ CounterOf(adapters, x) + 1 = CounterOf(adapters, y)

\* C35: routing an inbound message or state change for a registered handle
\* leaves every other session as it was: its observedClock, reorder buffer,
\* recovery timer, RuntimeState, comm map and comm instances.
C35_OtherSessionsUntouched ==
    [][(/\ Len(calls') = Len(calls) + 1
        /\ Last(calls').op \in {"message", "state"}
        /\ Last(calls').handle \in DOMAIN runtimes)
       => \A a \in DOMAIN adapters :
              a # runtimes[Last(calls').handle]
              => /\ adapters'[a].eventClock = adapters[a].eventClock
                 /\ adapters'[a].eventQueue = adapters[a].eventQueue
                 /\ adapters'[a].eventQueueTimer = adapters[a].eventQueueTimer
                 /\ adapters'[a].currentState = adapters[a].currentState
                 /\ adapters'[a].clients = adapters[a].clients
                 /\ adapters'[a].instances = adapters[a].instances
                 /\ adapters'[a].dispatched = adapters[a].dispatched]_vars

\* two registered sessions: one observed clock 2 and changed state, and an
\* event routed to the other one afterwards left it at that
C35_Witness ==
    \E g, h \in DOMAIN runtimes :
        /\ runtimes[g] # runtimes[h]
        /\ adapters[runtimes[g]].eventClock = 2
        /\ adapters[runtimes[g]].currentState = "busy"
        /\ adapters[runtimes[h]].eventClock = 1
        /\ adapters[runtimes[h]].currentState = "uninitialized"
        /\ adapters[runtimes[g]].dispatched # <<>>
        /\ adapters[runtimes[h]].dispatched # <<>>
        /\ Last(adapters[runtimes[h]].dispatched)
               > Last(adapters[runtimes[g]].dispatched)

\* C36: between the operations of a session the reorder buffer is non-empty
\* exactly when the recovery timer is armed, and at most one recovery
\* timeout is armed.
C36_BufferedIffTimerArmed ==
    /\ (eventQueue # <<>>) <=> eventQueueTimer
    /\ timeouts = IF eventQueueTimer THEN 1 ELSE 0

\* a second event was deferred while the timer of the first was armed
C36_Witness ==
    /\ Len(eventQueue) >= 2
    /\ eventQueueTimer
    /\ timeouts = 1

\* C37: a response whose parent id is that of an RPC the timeout already
\* rejected settles no promise and calls complete on none: it goes to the
\* data subscribers of the comm it arrives on, like an unsolicited message.
C37_LateResponseIsUnsolicited ==
    [][\A uid \in DOMAIN submitted' :
           (/\ DeliversToKnownComm(uid, "comm_data")
            /\ submitted'[uid].message.parent_id \in DOMAIN rpcs
            /\ rpcs[submitted'[uid].message.parent_id].promise.p.kind = "timeout")
           => LET i == clients[submitted'[uid].message.comm_id]
              IN /\ rpcs' = rpcs
                 /\ instances'[i].pendingRpcs = instances[i].pendingRpcs
                 /\ \/ instances[i].disposed
                    \/ instances'[i].received = instances[i].received + 1]_vars

\* the only data a comm was sent is the response to an RPC that had timed
\* out, and its subscribers received it
C37_Witness ==
    \E m \in DOMAIN rpcs :
        /\ rpcs[m].promise.p = TimeoutError(rpcs[m].request)
        /\ rpcs[m].promise.calls = 1
        /\ ~instances[rpcs[m].client].disposed
        /\ instances[rpcs[m].client].received = 1
        /\ \E k \in DOMAIN dispatched :
               /\ submitted[dispatched[k]].message.type = "comm_data"
               /\ submitted[dispatched[k]].message.parent_id = m
               /\ submitted[dispatched[k]].message.comm_id
                      = instances[rpcs[m].client].id
        /\ \A k \in DOMAIN dispatched :
               submitted[dispatched[k]].message.type = "comm_data"
               => submitted[dispatched[k]].message.parent_id = m

\* C38: handling a late event (clock below the observed clock), a message
\* that is delivered or a state change that is dropped, leaves the
\* observed clock, the reorder buffer and the recovery timer as they were.
C38_LateEventLeavesQueueAlone ==
    [][LateSubmit => /\ eventClock' = eventClock
                     /\ eventQueue' = eventQueue
                     /\ eventQueueTimer' = eventQueueTimer
                     /\ timeouts' = timeouts]_vars

\* the event submitted last was late and found an event waiting in the
\* buffer, which is still there with its timer armed
C38_Witness ==
    /\ submitted # <<>>
    /\ Last(submitted).clock < eventClock
    /\ \/ Last(submitted).uid \in dropped
       \/ /\ dispatched # <<>>
          /\ Last(dispatched) = Last(submitted).uid
    /\ eventQueue # <<>>
    /\ eventQueueTimer

\* this step submits an event whose clock equals a non-zero observed clock
EqualClockSubmit ==
    /\ SubmitStep
    /\ eventClock # 0
    /\ Last(submitted').clock = eventClock

\* the state changes among the events this step dispatched, by position
NewStateChanges ==
    {k \in DOMAIN NewlyDispatched : submitted'[NewlyDispatched[k]].kind = "state"}

\* C39: an event whose clock equals a non-zero observed clock is not
\* handled as late: its submit call appends it to the reorder buffer and
\* arms the recovery timer, dispatching and dropping nothing, and the next
\* flush dispatches it with the rest of the buffer; a state change that
\* waited there is applied by that flush, not dropped.
C39_EqualClockIsBuffered ==
    /\ [][EqualClockSubmit
          => /\ eventQueue' = Append(eventQueue, Last(submitted'))
             /\ eventQueueTimer'
             /\ timeouts' = 1
             /\ dispatched' = dispatched
             /\ dropped' = dropped
             /\ eventClock' = eventClock
             /\ currentState' = currentState]_vars
    /\ [][FlushStep
          => /\ QueuedUids \subseteq Range(NewlyDispatched)
             /\ dropped' = dropped
             /\ \A k \in NewStateChanges :
                    (\A j \in NewStateChanges : j <= k)
                    => currentState' = submitted'[NewlyDispatched[k]].state]_vars

\* the first event was flushed at once, a state change with the same clock
\* then waited for the timer, which dispatched and applied it
C39_Witness ==
    /\ Len(submitted) = 2
    /\ submitted[1].clock = submitted[2].clock
    /\ submitted[2].kind = "state"
    /\ dispatched = <<1, 2>>
    /\ timerFirings = 1
    /\ lifecycleCalls = 0
    /\ currentState = submitted[2].state
    /\ dropped = {}

\* C40: disposing a comm instance that was disposed before has no outward
\* effect: the second call issues no removal request and the state
\* subscribers observe nothing, so that over both calls there is at most
\* one removal request and at most one Closed.
C40_SecondDisposeIsSilent ==
    [][\A i \in DOMAIN instances :
           (/\ instances[i].disposeCalls >= 1
            /\ instances'[i].disposeCalls = instances[i].disposeCalls + 1)
           => /\ removeClientCalls' = removeClientCalls
              /\ instances'[i].observed = instances[i].observed]_vars
====
